---- MODULE Spec2Model ----
(***************************************************************************)
(* Model of FieldCanvas (autonomus_command_generator.py): the path editor, *)
(* the clasp/scoop/release command state and the exporter.  Every Tk       *)
(* callback is one action; Tk delivers the events one at a time and in any *)
(* order (mouse on the canvas, keys on the window, buttons by keyboard).   *)
(***************************************************************************)
EXTENDS Integers, Sequences, FiniteSets, TLC

\* ------------------------------------------------------------------ bounds
MaxPts == 3
MaxScoops == 2

\* ------------------------------------------------------- program constants
TILE_SIZE_MM == 600
FIELD_SIZE_MM == TILE_SIZE_MM * 6
FIELD_SIZE_PX == FIELD_SIZE_MM \div 10
CENTRAL_LINE_OFFSET == 10
central_line_x == FIELD_SIZE_PX \div 2
distance_threshold == 3
base_speed == 40
max_speed == 100

\* The buttons of create_command_buttons; 'None' is only ever stored.
COMMANDS == {"Pick Up", "Place", "Scoop", "Release", "Clasp", "None"}
Buttons == {"Pick Up", "Place", "Scoop", "Release", "Clasp"}
Sides == {"none", "left", "right"}

\* Pixel coordinates the mouse events carry: both edges of both margins.
ClickX == {170, 190}
ClickY == {100}
\* Positions of the mouse while dragging / on release (the control point).
Controls == {<<180, 90>>, <<180, 110>>}

\* path_points .. selected_side are the attributes of FieldCanvas.
\* outcome: how the most recent handler ended ("ok", the title of the error
\*   box it showed, or the exception it raised).
\* created_by: history, one entry per waypoint: the handler that appended it
\*   ("start", "straight", "curve"); the program keeps no such record.
\* c_file, txt_file: the two output files, [status, instrs]; status is
\*   "absent", "partial" (opened and cut short by an exception) or "complete".
\* densified: the most recent call of generate_intermediate_points on its
\*   own, [control, pts]: its control argument and the list it returned.
\* densify_calls: the control argument of every generate_intermediate_points
\*   call of the last export, "None" for the straight rule.
VARIABLES path_points, waypoint_commands, dragging_curve,
          selected_waypoint_index, pending_clasp, scoops_to_release,
          selected_side, outcome, created_by,
          c_file, txt_file, densify_calls, densified

vars == <<path_points, waypoint_commands, dragging_curve,
          selected_waypoint_index, pending_clasp, scoops_to_release,
          selected_side, outcome, created_by,
          c_file, txt_file, densify_calls, densified>>

session == <<path_points, waypoint_commands, dragging_curve,
             selected_waypoint_index, pending_clasp, scoops_to_release,
             selected_side, created_by>>
outputs == <<c_file, txt_file, densify_calls, densified>>

\* ----------------------------------------------------------------- helpers
Max(a, b) == IF a >= b THEN a ELSE b
Min(a, b) == IF a <= b THEN a ELSE b

RECURSIVE SqrtIter(_, _)
SqrtIter(n, g) ==
    LET h == (g + n \div g) \div 2
    IN  IF h >= g THEN g ELSE SqrtIter(n, h)
\* floor of math.sqrt(n) for an integer 0 <= n < 2^31; the iteration starts
\* at or above the root.
ISqrt(n) ==
    IF n = 0 THEN 0
    ELSE SqrtIter(n, IF n < 1024 THEN Min(n, 32) ELSE Min(n, 46340))

\* How the most recent handler ended: "ok", the title of the messagebox it
\* showed (messagebox.showerror), or the exception it raised.
Outcomes == {"ok", "Invalid Point", "No Waypoint Selected", "Clasp Required",
             "No Scoops", "IndexError", "AttributeError", "UnboundLocalError"}

\* dict item assignment: d[k] = v
DictSet(d, k, v) == [q \in (DOMAIN d) \cup {k} |-> IF q = k THEN v ELSE d[q]]

\* Python list indexing seq[i], a negative i counting from the end
PyIndex(seq, i) == IF i < 0 THEN seq[Len(seq) + i + 1] ELSE seq[i + 1]

\* self.path_points[self.selected_waypoint_index]
selected_wp == PyIndex(path_points, selected_waypoint_index)

\* ------------------------------------------------------------------- state
NoFile == [status |-> "absent", instrs |-> <<>>]
\* control=None, the default of generate_intermediate_points
no_control == <<>>
NoCall == [control |-> no_control, pts |-> <<>>]

Init ==
    /\ path_points = <<>>
    /\ waypoint_commands = <<>>
    /\ dragging_curve = FALSE
    /\ selected_waypoint_index = -1
    /\ pending_clasp = FALSE
    /\ scoops_to_release = 0
    /\ selected_side \in Sides
    /\ outcome = "ok"
    /\ created_by = <<>>
    /\ c_file = NoFile
    /\ txt_file = NoFile
    /\ densify_calls = <<>>
    /\ densified = NoCall

\* ------------------------------------------------------- side restriction
update_side(side) ==
    /\ selected_side' = side
    /\ outcome' = "ok"
    /\ UNCHANGED <<path_points, waypoint_commands, dragging_curve,
                   selected_waypoint_index, pending_clasp, scoops_to_release,
                   created_by, outputs>>

\* Mutant: the left margin compared with >= (the edge itself is refused).
is_valid_point_edge_refused(side, c, x) ==
    IF side = "left" /\ x >= c - CENTRAL_LINE_OFFSET THEN FALSE
    ELSE IF side = "right" /\ x < c + CENTRAL_LINE_OFFSET THEN FALSE
    ELSE TRUE

is_valid_point(side, c, x) ==
    IF side = "left" /\ x > c - CENTRAL_LINE_OFFSET THEN FALSE
    ELSE IF side = "right" /\ x < c + CENTRAL_LINE_OFFSET THEN FALSE
    ELSE TRUE

\* ------------------------------------------------------------ path editing
\* add_starting_point: the state it leaves (path and commands)
add_starting_point(x, y) ==
    /\ path_points' = Append(path_points, <<x, y>>)
    /\ waypoint_commands' = DictSet(waypoint_commands, <<x, y>>, "None")
    /\ created_by' = Append(created_by, "start")

\* Mutant: a right click on an empty path is refused instead of creating
\* the start point.
add_straight_line_empty_refused(x, y) ==
    /\ Len(path_points) < MaxPts
    /\ IF ~is_valid_point(selected_side, central_line_x, x)
       THEN /\ outcome' = "Invalid Point"
            /\ UNCHANGED <<path_points, waypoint_commands, created_by>>
       ELSE IF path_points = <<>>
       THEN /\ outcome' = "Empty"
            /\ UNCHANGED <<path_points, waypoint_commands, created_by>>
       ELSE /\ outcome' = "ok"
            /\ path_points' = Append(path_points, <<x, y>>)
            /\ waypoint_commands' =
                   DictSet(waypoint_commands, <<x, y>>, "None")
            /\ created_by' = Append(created_by, "straight")
    /\ UNCHANGED <<dragging_curve, selected_waypoint_index, pending_clasp,
                   scoops_to_release, selected_side, outputs>>

add_straight_line(x, y) ==
    /\ Len(path_points) < MaxPts
    /\ IF ~is_valid_point(selected_side, central_line_x, x)
       THEN /\ outcome' = "Invalid Point"
            /\ UNCHANGED <<path_points, waypoint_commands, created_by>>
       ELSE /\ outcome' = "ok"
            /\ IF path_points = <<>>
               THEN add_starting_point(x, y)
               ELSE /\ path_points' = Append(path_points, <<x, y>>)
                    /\ waypoint_commands' =
                           DictSet(waypoint_commands, <<x, y>>, "None")
                    /\ created_by' = Append(created_by, "straight")
    /\ UNCHANGED <<dragging_curve, selected_waypoint_index, pending_clasp,
                   scoops_to_release, selected_side, outputs>>

\* Mutant: the left click that creates the starting point opens a gesture
\* as well.
start_curve_point_opens_on_start(x, y) ==
    /\ Len(path_points) < MaxPts
    /\ IF ~is_valid_point(selected_side, central_line_x, x)
       THEN /\ outcome' = "Invalid Point"
            /\ UNCHANGED <<path_points, waypoint_commands, created_by,
                           dragging_curve>>
       ELSE /\ outcome' = "ok"
            /\ IF path_points = <<>>
               THEN /\ add_starting_point(x, y)
                    /\ dragging_curve' = TRUE
               ELSE /\ path_points' = Append(path_points, <<x, y>>)
                    /\ waypoint_commands' =
                           DictSet(waypoint_commands, <<x, y>>, "None")
                    /\ created_by' = Append(created_by, "curve")
                    /\ dragging_curve' = TRUE
    /\ UNCHANGED <<selected_waypoint_index, pending_clasp,
                   scoops_to_release, selected_side, outputs>>

start_curve_point(x, y) ==
    /\ Len(path_points) < MaxPts
    /\ IF ~is_valid_point(selected_side, central_line_x, x)
       THEN /\ outcome' = "Invalid Point"
            /\ UNCHANGED <<path_points, waypoint_commands, created_by,
                           dragging_curve>>
       ELSE /\ outcome' = "ok"
            /\ IF path_points = <<>>
               THEN /\ add_starting_point(x, y)
                    /\ UNCHANGED dragging_curve
               ELSE /\ path_points' = Append(path_points, <<x, y>>)
                    /\ waypoint_commands' =
                           DictSet(waypoint_commands, <<x, y>>, "None")
                    /\ created_by' = Append(created_by, "curve")
                    /\ dragging_curve' = TRUE
    /\ UNCHANGED <<selected_waypoint_index, pending_clasp,
                   scoops_to_release, selected_side, outputs>>

\* Only the canvas preview changes; path_points[-2] and [-1] are read.
adjust_curve_point(control) ==
    /\ outcome' = IF dragging_curve /\ Len(path_points) < 2
                  THEN "IndexError" ELSE "ok"
    /\ UNCHANGED <<session, outputs>>

\* Mutant: the curve is taken to end at the point the mouse was released.
calculate_bezier_end_at_control(p1, p2, control) == <<control[1], control[2]>>

calculate_bezier_end(p1, p2, control) == <<p2[1], p2[2]>>

\* Mutant: the release handler does not test the drag flag.
finalize_curve_point_unguarded(control) ==
    /\ dragging_curve' = FALSE
    /\ IF Len(path_points) < 2
       THEN /\ outcome' = "IndexError"
            /\ UNCHANGED path_points
       ELSE /\ outcome' = "ok"
            /\ path_points' =
                 [path_points EXCEPT ![Len(path_points)] =
                    calculate_bezier_end(path_points[Len(path_points) - 1],
                                         path_points[Len(path_points)],
                                         control)]
    /\ UNCHANGED <<waypoint_commands, selected_waypoint_index, pending_clasp,
                   scoops_to_release, selected_side, created_by, outputs>>

finalize_curve_point(control) ==
    /\ IF ~dragging_curve
       THEN /\ outcome' = "ok"
            /\ UNCHANGED <<dragging_curve, path_points>>
       ELSE /\ dragging_curve' = FALSE
            /\ IF Len(path_points) < 2
               THEN /\ outcome' = "IndexError"
                    /\ UNCHANGED path_points
               ELSE /\ outcome' = "ok"
                    /\ path_points' =
                         [path_points EXCEPT ![Len(path_points)] =
                            calculate_bezier_end(path_points[Len(path_points) - 1],
                                                 path_points[Len(path_points)],
                                                 control)]
    /\ UNCHANGED <<waypoint_commands, selected_waypoint_index, pending_clasp,
                   scoops_to_release, selected_side, created_by, outputs>>

\* ---------------------------------------------------------------- selection
\* Mutant: the cursor stops at both ends of the path instead of wrapping.
cycle_waypoint_clamped(direction) ==
    /\ outcome' = "ok"
    /\ IF path_points = <<>>
       THEN UNCHANGED selected_waypoint_index
       ELSE selected_waypoint_index' =
                Max(0, Min(Len(path_points) - 1,
                           selected_waypoint_index + direction))
    /\ UNCHANGED <<path_points, waypoint_commands, dragging_curve,
                   pending_clasp, scoops_to_release, selected_side,
                   created_by, outputs>>

\* Mutant: stepping past either end of the path drops the selection
\* instead of wrapping.
cycle_waypoint_deselects_at_end(direction) ==
    /\ outcome' = "ok"
    /\ IF path_points = <<>>
       THEN UNCHANGED selected_waypoint_index
       ELSE selected_waypoint_index' =
                IF selected_waypoint_index + direction \in 0..(Len(path_points) - 1)
                THEN selected_waypoint_index + direction
                ELSE -1
    /\ UNCHANGED <<path_points, waypoint_commands, dragging_curve,
                   pending_clasp, scoops_to_release, selected_side,
                   created_by, outputs>>

cycle_waypoint(direction) ==
    /\ outcome' = "ok"
    /\ IF path_points = <<>>
       THEN UNCHANGED selected_waypoint_index
       ELSE selected_waypoint_index' =
                (selected_waypoint_index + direction) % Len(path_points)
    /\ UNCHANGED <<path_points, waypoint_commands, dragging_curve,
                   pending_clasp, scoops_to_release, selected_side,
                   created_by, outputs>>

\* ----------------------------------------------------------------- commands
\* Mutant: the guard tests for an empty path instead of the cursor, so
\* index -1 addresses the last waypoint.
no_selection_empty_path(index) == path_points = <<>>

\* the guard "if self.selected_waypoint_index == -1" of both handlers
no_selection(index) == index = -1

\* Mutant: the scoop is counted before the clasp check.
command_sequence_count_first(clasp, scoops, command) ==
    IF command = "Scoop" /\ ~clasp
    THEN [outcome |-> "Clasp Required", clasp |-> clasp, scoops |-> scoops + 1]
    ELSE LET scoops1 == IF command = "Scoop" THEN scoops + 1 ELSE scoops
             clasp1 == IF command = "Clasp" THEN TRUE ELSE clasp
         IN  IF command = "Release" /\ scoops1 = 0
             THEN [outcome |-> "No Scoops", clasp |-> clasp1, scoops |-> scoops1]
             ELSE IF command = "Release"
             THEN [outcome |-> "ok", clasp |-> FALSE, scoops |-> 0]
             ELSE [outcome |-> "ok", clasp |-> clasp1, scoops |-> scoops1]

\* Mutant: Release closes the clasp before its own check.
command_sequence_close_first(clasp, scoops, command) ==
    IF command = "Scoop" /\ ~clasp
    THEN [outcome |-> "Clasp Required", clasp |-> clasp, scoops |-> scoops]
    ELSE LET scoops1 == IF command = "Scoop" THEN scoops + 1 ELSE scoops
             clasp1 == IF command = "Clasp" THEN TRUE
                       ELSE IF command = "Release" THEN FALSE ELSE clasp
         IN  IF command = "Release" /\ scoops1 = 0
             THEN [outcome |-> "No Scoops", clasp |-> clasp1, scoops |-> scoops1]
             ELSE IF command = "Release"
             THEN [outcome |-> "ok", clasp |-> FALSE, scoops |-> 0]
             ELSE [outcome |-> "ok", clasp |-> clasp1, scoops |-> scoops1]

\* Mutant: Release resets the counter and leaves the clasp open.
command_sequence_keep_clasp(clasp, scoops, command) ==
    IF command = "Scoop" /\ ~clasp
    THEN [outcome |-> "Clasp Required", clasp |-> clasp, scoops |-> scoops]
    ELSE LET scoops1 == IF command = "Scoop" THEN scoops + 1 ELSE scoops
             clasp1 == IF command = "Clasp" THEN TRUE ELSE clasp
         IN  IF command = "Release" /\ scoops1 = 0
             THEN [outcome |-> "No Scoops", clasp |-> clasp1, scoops |-> scoops1]
             ELSE IF command = "Release"
             THEN [outcome |-> "ok", clasp |-> clasp1, scoops |-> 0]
             ELSE [outcome |-> "ok", clasp |-> clasp1, scoops |-> scoops1]

\* Mutant: Scoop sets the counter to 1 instead of adding 1.
command_sequence_set_one(clasp, scoops, command) ==
    IF command = "Scoop" /\ ~clasp
    THEN [outcome |-> "Clasp Required", clasp |-> clasp, scoops |-> scoops]
    ELSE LET scoops1 == IF command = "Scoop" THEN 1 ELSE scoops
             clasp1 == IF command = "Clasp" THEN TRUE ELSE clasp
         IN  IF command = "Release" /\ scoops1 = 0
             THEN [outcome |-> "No Scoops", clasp |-> clasp1, scoops |-> scoops1]
             ELSE IF command = "Release"
             THEN [outcome |-> "ok", clasp |-> FALSE, scoops |-> 0]
             ELSE [outcome |-> "ok", clasp |-> clasp1, scoops |-> scoops1]

\* Mutant: Release closes the clasp and leaves the counter as it is.
command_sequence_close_only(clasp, scoops, command) ==
    IF command = "Scoop" /\ ~clasp
    THEN [outcome |-> "Clasp Required", clasp |-> clasp, scoops |-> scoops]
    ELSE LET scoops1 == IF command = "Scoop" THEN scoops + 1 ELSE scoops
             clasp1 == IF command = "Clasp" THEN TRUE ELSE clasp
         IN  IF command = "Release" /\ scoops1 = 0
             THEN [outcome |-> "No Scoops", clasp |-> clasp1, scoops |-> scoops1]
             ELSE IF command = "Release"
             THEN [outcome |-> "ok", clasp |-> FALSE, scoops |-> scoops1]
             ELSE [outcome |-> "ok", clasp |-> clasp1, scoops |-> scoops1]

\* The clasp / scoop / release validation of assign_command, statement by
\* statement: the outcome and the two counters it leaves.
command_sequence(clasp, scoops, command) ==
    IF command = "Scoop" /\ ~clasp
    THEN [outcome |-> "Clasp Required", clasp |-> clasp, scoops |-> scoops]
    ELSE LET scoops1 == IF command = "Scoop" THEN scoops + 1 ELSE scoops
             clasp1 == IF command = "Clasp" THEN TRUE ELSE clasp
         IN  IF command = "Release" /\ scoops1 = 0
             THEN [outcome |-> "No Scoops", clasp |-> clasp1, scoops |-> scoops1]
             ELSE IF command = "Release"
             THEN [outcome |-> "ok", clasp |-> FALSE, scoops |-> 0]
             ELSE [outcome |-> "ok", clasp |-> clasp1, scoops |-> scoops1]

assign_command(command) ==
    /\ (command = "Scoop") => scoops_to_release < MaxScoops
    /\ IF no_selection(selected_waypoint_index)
       THEN /\ outcome' = "No Waypoint Selected"
            /\ UNCHANGED <<waypoint_commands, pending_clasp, scoops_to_release>>
       ELSE LET r == command_sequence(pending_clasp, scoops_to_release, command)
            IN  /\ outcome' = r.outcome
                /\ pending_clasp' = r.clasp
                /\ scoops_to_release' = r.scoops
                /\ IF r.outcome = "ok"
                   THEN waypoint_commands' =
                            DictSet(waypoint_commands, selected_wp, command)
                   ELSE UNCHANGED waypoint_commands
    /\ UNCHANGED <<path_points, dragging_curve, selected_waypoint_index,
                   selected_side, created_by, outputs>>

\* Mutant: removing a Scoop takes it off the counter, removing a Clasp
\* closes the clasp again.
remove_command_rollback ==
    /\ IF no_selection(selected_waypoint_index)
       THEN /\ outcome' = "No Waypoint Selected"
            /\ UNCHANGED <<waypoint_commands, pending_clasp, scoops_to_release>>
       ELSE /\ outcome' = "ok"
            /\ waypoint_commands' = DictSet(waypoint_commands, selected_wp, "None")
            /\ scoops_to_release' =
                   IF waypoint_commands[selected_wp] = "Scoop"
                   THEN Max(0, scoops_to_release - 1) ELSE scoops_to_release
            /\ pending_clasp' =
                   IF waypoint_commands[selected_wp] = "Clasp"
                   THEN FALSE ELSE pending_clasp
    /\ UNCHANGED <<path_points, dragging_curve, selected_waypoint_index,
                   selected_side, created_by, outputs>>

\* Mutant: Remove Command also drops the selection.
remove_command_deselect ==
    /\ IF no_selection(selected_waypoint_index)
       THEN /\ outcome' = "No Waypoint Selected"
            /\ UNCHANGED <<waypoint_commands, selected_waypoint_index>>
       ELSE /\ outcome' = "ok"
            /\ waypoint_commands' = DictSet(waypoint_commands, selected_wp, "None")
            /\ selected_waypoint_index' = -1
    /\ UNCHANGED <<path_points, dragging_curve, pending_clasp,
                   scoops_to_release, selected_side, created_by, outputs>>

remove_command ==
    /\ IF no_selection(selected_waypoint_index)
       THEN /\ outcome' = "No Waypoint Selected"
            /\ UNCHANGED waypoint_commands
       ELSE /\ outcome' = "ok"
            /\ waypoint_commands' = DictSet(waypoint_commands, selected_wp, "None")
    /\ UNCHANGED <<path_points, dragging_curve, selected_waypoint_index,
                   pending_clasp, scoops_to_release, selected_side,
                   created_by, outputs>>

\* ------------------------------------------------------------------ export
\* (p2.x - p1.x)^2 + (p2.y - p1.y)^2, the radicand of calculate_distance
squared_distance(p1, p2) ==
    (p2[1] - p1[1]) * (p2[1] - p1[1]) + (p2[2] - p1[2]) * (p2[2] - p1[2])

\* math.degrees(math.atan2(dy, dx)) in hundredths of a degree, as "{:.2f}"
\* prints it, for the directions the click coordinates produce.
calculate_heading(p1, p2) ==
    LET dx == p2[1] - p1[1]
        dy == p2[2] - p1[2]
    IN  CASE dy = 0 /\ dx >= 0 -> 0
          [] dy = 0 /\ dx < 0 -> 18000
          [] dx = 0 /\ dy > 0 -> 9000
          [] dx = 0 /\ dy < 0 -> -9000
          [] dx = dy /\ dx > 0 -> 4500
          [] dx = dy /\ dx < 0 -> -13500
          [] dx = -dy /\ dx > 0 -> -4500
          [] dx = -dy /\ dx < 0 -> 13500

\* Mutant: the number of points without its lower limit of 1.
num_points_unclamped(p1, p2) ==
    ISqrt(squared_distance(p1, p2)) \div distance_threshold

\* num_points = max(1, int(distance / distance_threshold))
num_points(p1, p2) ==
    Max(1, ISqrt(squared_distance(p1, p2)) \div distance_threshold)

\* generate_intermediate_points, straight case: the i-th point is
\* p1 + (i / num_points) * (p2 - p1), kept as the fractions
\* <<numerator, denominator>> of its coordinates.
generate_intermediate_points(p1, p2) ==
    LET n == num_points(p1, p2)
    IN  [i \in 1..n |->
            [x |-> <<p1[1] * n + i * (p2[1] - p1[1]), n>>,
             y |-> <<p1[2] * n + i * (p2[2] - p1[2]), n>>,
             i |-> i, n |-> n]]

\* calculate_quadratic_bezier_points: the 101 samples t = 0, 0.01, .. 1 of
\* (1-t)^2 p1 + 2(1-t)t control + t^2 p2, each coordinate in units of 1/10000.
calculate_quadratic_bezier_points(p1, p2, control) ==
    [k \in 1..101 |->
        LET t == k - 1
        IN  <<(100 - t) * (100 - t) * p1[1] + 2 * (100 - t) * t * control[1]
                + t * t * p2[1],
              (100 - t) * (100 - t) * p1[2] + 2 * (100 - t) * t * control[2]
                + t * t * p2[2]>>]

\* calculate_distance(q1, q2) >= threshold for two samples in units of
\* 1/10000: dx^2 + dy^2 >= (10000 * threshold)^2, the squares split at
\* 100 to stay within 32 bits.
distance_at_least(q1, q2, threshold) ==
    LET a == IF q2[1] >= q1[1] THEN q2[1] - q1[1] ELSE q1[1] - q2[1]
        b == IF q2[2] >= q1[2] THEN q2[2] - q1[2] ELSE q1[2] - q2[2]
        hi == (a \div 100) * (a \div 100) + (b \div 100) * (b \div 100)
        lo == 200 * (a \div 100) * (a % 100) + (a % 100) * (a % 100)
              + 200 * (b \div 100) * (b % 100) + (b % 100) * (b % 100)
    IN  hi + lo \div 10000 >= (100 * threshold) * (100 * threshold)

\* The loop of the curve case from sample i on: sample i is appended when
\* it is at least distance_threshold away from sample i - 1.
RECURSIVE bezier_loop(_, _)
bezier_loop(bezier_points, i) ==
    IF i > Len(bezier_points) THEN <<>>
    ELSE (IF distance_at_least(bezier_points[i - 1], bezier_points[i],
                               distance_threshold)
          THEN <<[x |-> <<bezier_points[i][1], 10000>>,
                  y |-> <<bezier_points[i][2], 10000>>,
                  i |-> i - 1, n |-> 100]>>
          ELSE <<>>)
         \o bezier_loop(bezier_points, i + 1)

\* generate_intermediate_points, curve case (control is not None)
bezier_intermediate_points(p1, p2, control) ==
    bezier_loop(calculate_quadratic_bezier_points(p1, p2, control), 2)

\* calculate_dynamic_speed(calculate_distance(p1, point)) for the i-th of n
\* points of the segment, in hundredths as "{:.2f}" prints it:
\* min(40 + (i * dist / n) / 100 * 60, 100), dist = sqrt(sq); the root is
\* taken of sq itself when it is a whole number, of the scaled radicand
\* otherwise.
calculate_dynamic_speed(i, n, sq) ==
    LET r == ISqrt(sq)
        ramp == IF r * r = sq
                THEN (2 * (max_speed - base_speed) * i * r + n) \div (2 * n)
                ELSE (ISqrt(4 * (max_speed - base_speed) * (max_speed - base_speed)
                            * i * i * sq) + n) \div (2 * n)
    IN  Min(base_speed * 100 + ramp, max_speed * 100)

\* "{:.2f}" of the fraction num / den (non-negative), in hundredths
Fixed2(f) == (200 * f[1] + f[2]) \div (2 * f[2])

\* f'CMD_{command.upper().replace(" ", "_")}'
CTag(command) ==
    CASE command = "Pick Up" -> "CMD_PICK_UP"
      [] command = "Place" -> "CMD_PLACE"
      [] command = "Scoop" -> "CMD_SCOOP"
      [] command = "Release" -> "CMD_RELEASE"
      [] command = "Clasp" -> "CMD_CLASP"
      [] command = "None" -> "CMD_NONE"

\* command.upper()
TxtTag(command) ==
    CASE command = "Pick Up" -> "PICK UP"
      [] command = "Place" -> "PLACE"
      [] command = "Scoop" -> "SCOOP"
      [] command = "Release" -> "RELEASE"
      [] command = "Clasp" -> "CLASP"
      [] command = "None" -> "NONE"

\* One array entry of the C file: { tag, x, y, heading, speed }
CEntry(tag, x, y, heading, speed) ==
    [command |-> tag, x |-> x, y |-> y, heading |-> heading, speed |-> speed]

\* One line of the transcript: every number with two decimals
TxtLine(tag, x, y, heading, speed) ==
    [command |-> tag, x |-> Fixed2(x), y |-> Fixed2(y), heading |-> heading,
     speed |-> speed]

\* The entries one iteration of the C loop writes for segment (i, i+1)
CSegment(path, cmds, i) ==
    LET p1 == path[i]
        p2 == path[i + 1]
        heading == calculate_heading(p1, p2)
        pts == generate_intermediate_points(p1, p2)
        sq == squared_distance(p1, p2)
        act == IF cmds[p1] # "None"
               THEN <<CEntry(CTag(cmds[p1]), <<p1[1], 1>>, <<p1[2], 1>>, heading, 0)>>
               ELSE <<>>
    IN  act \o [k \in 1..Len(pts) |->
                  CEntry("CMD_MOVE_WITH_HEADING", pts[k].x, pts[k].y, heading,
                         calculate_dynamic_speed(pts[k].i, pts[k].n, sq))]

\* Mutant: the TXT loop writes the waypoint's command line after the moves
\* of its segment.
TxtSegment_moves_first(path, cmds, i) ==
    LET p1 == path[i]
        p2 == path[i + 1]
        heading == calculate_heading(p1, p2)
        pts == generate_intermediate_points(p1, p2)
        sq == squared_distance(p1, p2)
        act == IF cmds[p1] # "None"
               THEN <<TxtLine(TxtTag(cmds[p1]), <<p1[1], 1>>, <<p1[2], 1>>, heading, 0)>>
               ELSE <<>>
    IN  [k \in 1..Len(pts) |->
            TxtLine("MOVE", pts[k].x, pts[k].y, heading,
                    calculate_dynamic_speed(pts[k].i, pts[k].n, sq))] \o act

\* The lines one iteration of the TXT loop writes for segment (i, i+1)
TxtSegment(path, cmds, i) ==
    LET p1 == path[i]
        p2 == path[i + 1]
        heading == calculate_heading(p1, p2)
        pts == generate_intermediate_points(p1, p2)
        sq == squared_distance(p1, p2)
        act == IF cmds[p1] # "None"
               THEN <<TxtLine(TxtTag(cmds[p1]), <<p1[1], 1>>, <<p1[2], 1>>, heading, 0)>>
               ELSE <<>>
    IN  act \o [k \in 1..Len(pts) |->
                  TxtLine("MOVE", pts[k].x, pts[k].y, heading,
                          calculate_dynamic_speed(pts[k].i, pts[k].n, sq))]

RECURSIVE CLoop(_, _, _)
CLoop(path, cmds, i) ==
    IF i >= Len(path) THEN <<>>
    ELSE CSegment(path, cmds, i) \o CLoop(path, cmds, i + 1)

RECURSIVE TxtLoop(_, _, _)
TxtLoop(path, cmds, i) ==
    IF i >= Len(path) THEN <<>>
    ELSE TxtSegment(path, cmds, i) \o TxtLoop(path, cmds, i + 1)

\* "Add the last point's command", with the heading the loop left behind
CFinal(path, cmds) ==
    LET fp == path[Len(path)]
    IN  IF cmds[fp] # "None"
        THEN <<CEntry(CTag(cmds[fp]), <<fp[1], 1>>, <<fp[2], 1>>,
                      calculate_heading(path[Len(path) - 1], fp), 0)>>
        ELSE <<>>

TxtFinal(path, cmds) ==
    LET fp == path[Len(path)]
    IN  IF cmds[fp] # "None"
        THEN <<TxtLine(TxtTag(cmds[fp]), <<fp[1], 1>>, <<fp[2], 1>>,
                       calculate_heading(path[Len(path) - 1], fp), 0)>>
        ELSE <<>>

\* The segment loop takes the curve branch, for every segment, while the
\* drag flag is set; the method it then calls is defined nowhere.
uses_curve_branch(i) == i < Len(path_points) /\ dragging_curve

\* How the C pass ends: "ok", or the exception that leaves the file cut short
export_outcome ==
    IF Len(path_points) >= 2 /\ uses_curve_branch(1) THEN "AttributeError"
    ELSE IF path_points = <<>> THEN "IndexError"
    ELSE IF Len(path_points) = 1 /\ waypoint_commands[path_points[1]] # "None"
    THEN "UnboundLocalError"
    ELSE "ok"

export_to_files ==
    /\ outcome' = export_outcome
    /\ IF export_outcome = "ok"
       THEN /\ c_file' = [status |-> "complete",
                          instrs |-> CLoop(path_points, waypoint_commands, 1)
                                     \o CFinal(path_points, waypoint_commands)]
            /\ txt_file' = [status |-> "complete",
                            instrs |-> TxtLoop(path_points, waypoint_commands, 1)
                                       \o TxtFinal(path_points, waypoint_commands)]
            /\ densify_calls' = [k \in 1..(2 * (Len(path_points) - 1)) |-> "None"]
       ELSE /\ c_file' = [status |-> "partial", instrs |-> <<>>]
            /\ densify_calls' = <<>>
            /\ UNCHANGED txt_file
    /\ UNCHANGED <<session, densified>>

\* ---------------------------------------------------------- specification
\* The editing handlers: mouse, keys and command buttons
Edit ==
    \/ \E s \in Sides : update_side(s)
    \/ \E x \in ClickX, y \in ClickY : add_straight_line(x, y)
    \/ \E x \in ClickX, y \in ClickY : start_curve_point(x, y)
    \/ \E c \in Controls : adjust_curve_point(c)
    \/ \E c \in Controls : finalize_curve_point(c)
    \/ \E d \in {1, -1} : cycle_waypoint(d)
    \/ \E b \in Buttons : assign_command(b)
    \/ remove_command

\* No export has run yet in this session.
not_exported == c_file.status = "absent"

\* A session is followed up to its first export; exporting again at once
\* writes the same files and leaves the state as it is.
Next ==
    \/ not_exported /\ \E s \in Sides : update_side(s)
    \/ not_exported /\ \E x \in ClickX, y \in ClickY : add_straight_line(x, y)
    \/ not_exported /\ \E x \in ClickX, y \in ClickY : start_curve_point(x, y)
    \/ not_exported /\ \E c \in Controls : adjust_curve_point(c)
    \/ not_exported /\ \E c \in Controls : finalize_curve_point(c)
    \/ not_exported /\ \E d \in {1, -1} : cycle_waypoint(d)
    \/ not_exported /\ \E b \in Buttons : assign_command(b)
    \/ not_exported /\ remove_command
    \/ not_exported /\ export_to_files

Spec == Init /\ [][Next]_vars

\* The session before any export: export_to_files leaves every session
\* variable unchanged, so the session states of Spec are those of Editing.
Editing == Init /\ [][Edit]_vars

\* ------------------------------------------------------ the exporter alone
\* export_to_files reads path_points, waypoint_commands and dragging_curve
\* and nothing else.  ExportInit draws them from the sessions the handlers
\* build: any path of at most MaxPts clicked points, each after the first
\* appended by a right click or by a curve click, a gesture possibly still
\* open after a curve click, and any command on each point.  The clasp flag
\* and the counter are the ones left by assigning, with the cursor on
\* waypoint 0 at the end: the Releases first (each after a Clasp and a Scoop
\* on the same waypoint), then the Scoops after one Clasp, then the rest.
PointsOf(path) == {path[i] : i \in DOMAIN path}

ExportInit ==
    /\ path_points \in UNION {[1..n -> ClickX \X ClickY] : n \in 0..MaxPts}
    /\ waypoint_commands \in IF path_points = <<>> THEN {<<>>}
                              ELSE [PointsOf(path_points) -> COMMANDS]
    /\ created_by \in {h \in [1..Len(path_points) -> {"start", "straight", "curve"}] :
                           \A i \in 1..Len(path_points) : (h[i] = "start") <=> (i = 1)}
    /\ dragging_curve \in {d \in BOOLEAN :
                               d => \E i \in 1..Len(path_points) : created_by[i] = "curve"}
    /\ selected_waypoint_index = IF path_points = <<>> THEN -1 ELSE 0
    /\ pending_clasp = \E q \in DOMAIN waypoint_commands :
                            waypoint_commands[q] \in {"Clasp", "Scoop"}
    /\ scoops_to_release =
           Cardinality({q \in DOMAIN waypoint_commands : waypoint_commands[q] = "Scoop"})
    /\ selected_side = "none"
    /\ outcome = "ok"
    /\ c_file = NoFile
    /\ txt_file = NoFile
    /\ densify_calls = <<>>
    /\ densified = NoCall

Exporting == ExportInit /\ [][export_to_files]_vars

\* ----------------------------------------------------- the densifier alone
\* Segment ends and control points generate_intermediate_points is called
\* with: pixels of the canvas, 0 to 100 apart.
DensifyX == {0, 3, 4, 100}
DensifyY == {0, 4}
DensifyControls == {<<50, 4>>, <<200, 0>>}

\* A path of two waypoints, the second appended by either kind of click
DensifyInit ==
    /\ path_points \in [1..2 -> DensifyX \X DensifyY]
    /\ waypoint_commands = [q \in PointsOf(path_points) |-> "None"]
    /\ created_by \in {<<"start", "straight">>, <<"start", "curve">>}
    /\ dragging_curve = FALSE
    /\ selected_waypoint_index = -1
    /\ pending_clasp = FALSE
    /\ scoops_to_release = 0
    /\ selected_side = "none"
    /\ outcome = "ok"
    /\ c_file = NoFile
    /\ txt_file = NoFile
    /\ densify_calls = <<>>
    /\ densified = NoCall

\* generate_intermediate_points(path_points[0], path_points[1], control)
densify(control) ==
    /\ densified' =
          [control |-> control,
           pts |-> IF control = no_control
                   THEN generate_intermediate_points(path_points[1], path_points[2])
                   ELSE bezier_intermediate_points(path_points[1], path_points[2],
                                                   control)]
    /\ UNCHANGED <<session, outcome, c_file, txt_file, densify_calls>>

DensifyNext == \E control \in {no_control} \cup DensifyControls : densify(control)

Densifying == DensifyInit /\ [][DensifyNext]_vars

\* ------------------------------------------------------------------ claims
\* What the command handlers may change
command_state == <<waypoint_commands, pending_clasp, scoops_to_release>>
\* A waypoint is selected
selected == selected_waypoint_index # -1

\* C1: assigning Scoop to the selected waypoint while the clasp is not open
\* shows "Clasp Required" and leaves every waypoint's command, the clasp flag
\* and the scoop counter as they were.
C1_ScoopWithoutClaspRejected ==
    [][(assign_command("Scoop") /\ selected /\ ~pending_clasp)
         => (outcome' = "Clasp Required" /\ UNCHANGED command_state)]_vars

\* C1 witness: Scoop was just refused on a waypoint that carries a command.
C1_Witness ==
    /\ outcome = "Clasp Required"
    /\ selected /\ ~pending_clasp
    /\ waypoint_commands[selected_wp] = "Pick Up"

\* C2: assigning Release while no scoop is pending shows "No Scoops" and
\* leaves the commands, the clasp flag (open or not) and the counter as
\* they were.
C2_ReleaseWithoutScoopRejected ==
    [][(assign_command("Release") /\ selected /\ scoops_to_release = 0)
         => (outcome' = "No Scoops" /\ UNCHANGED command_state)]_vars

\* C2 witness: Release was just refused while the clasp is open.
C2_Witness ==
    /\ outcome = "No Scoops"
    /\ selected /\ pending_clasp /\ scoops_to_release = 0
    /\ waypoint_commands[selected_wp] = "Clasp"

\* C3: a Release assigned while scoops are pending succeeds, stores Release
\* on the selected waypoint, sets the counter to 0 and closes the clasp,
\* whatever the counter was (1 after Clasp, Scoop; more after more Scoops).
C3_ReleaseResets ==
    [][(assign_command("Release") /\ selected /\ scoops_to_release > 0)
         => /\ outcome' = "ok"
            /\ scoops_to_release' = 0
            /\ pending_clasp' = FALSE
            /\ waypoint_commands' =
                   DictSet(waypoint_commands, selected_wp, "Release")]_vars

\* C3 witness: Release is stored on the selected waypoint after a Scoop
\* stored on another one, and the command state is back to {FALSE, 0}.
C3_Witness ==
    /\ outcome = "ok" /\ selected
    /\ waypoint_commands[selected_wp] = "Release"
    /\ \E p \in DOMAIN waypoint_commands : waypoint_commands[p] = "Scoop"
    /\ ~pending_clasp /\ scoops_to_release = 0

\* C4: a Scoop assigned while the clasp is open succeeds, stores Scoop on the
\* selected waypoint, adds exactly 1 to the counter and leaves the clasp
\* open, so the next Scoop succeeds as well.
C4_ScoopCounts ==
    [][(assign_command("Scoop") /\ selected /\ pending_clasp)
         => /\ outcome' = "ok"
            /\ scoops_to_release' = scoops_to_release + 1
            /\ pending_clasp' = TRUE
            /\ waypoint_commands' =
                   DictSet(waypoint_commands, selected_wp, "Scoop")]_vars

\* C4 witness: two Scoops in a row have succeeded after a Clasp.
C4_Witness ==
    /\ outcome = "ok" /\ selected
    /\ waypoint_commands[selected_wp] = "Scoop"
    /\ pending_clasp /\ scoops_to_release = 2

\* C5: exporting a path of fewer than 2 waypoints fails with
\* InsufficientPoints and leaves both output files as they were.
C5_ShortPathWritesNothing ==
    [][(export_to_files /\ Len(path_points) < 2)
         => (outcome' = "InsufficientPoints" /\ UNCHANGED <<c_file, txt_file>>)]_vars

\* The command tags of a sequence of array entries, in order
Tags(instrs) == [k \in 1..Len(instrs) |-> instrs[k].command]

\* The tags the claimed order prescribes from waypoint i on: the actuator of
\* waypoint i if it has a command, then one move per sub-point of segment
\* (i, i+1); after the last segment the actuator of the last waypoint.
RECURSIVE ClaimedTags(_, _, _)
ClaimedTags(path, cmds, i) ==
    LET act == IF cmds[path[i]] # "None" THEN <<CTag(cmds[path[i]])>> ELSE <<>>
    IN  IF i >= Len(path) THEN act
        ELSE act \o [k \in 1..num_points(path[i], path[i + 1]) |->
                        "CMD_MOVE_WITH_HEADING"]
                 \o ClaimedTags(path, cmds, i + 1)

\* C6: exporting a path of n >= 2 waypoints writes, for each waypoint in
\* path order, its actuator entry (when it has a command) followed by the
\* moves of its outgoing segment, and last the final waypoint's actuator.
C6_CompiledOrder ==
    [][(export_to_files /\ Len(path_points) >= 2)
         => /\ c_file'.status = "complete"
            /\ Tags(c_file'.instrs) =
                   ClaimedTags(path_points, waypoint_commands, 1)]_vars

\* C7: export densifies segment (i, i+1) with the curve rule exactly when
\* waypoint i+1 was appended by a curve gesture, segment by segment, whether
\* or not a gesture is open at the time.
C7_RulePerSegment ==
    [][(export_to_files /\ Len(path_points) >= 2)
         => /\ Len(densify_calls') >= Len(path_points) - 1
            /\ \A i \in 1..(Len(path_points) - 1) :
                   (densify_calls'[i] # "None") <=> (created_by[i + 1] = "curve")]_vars

\* C8: while a curve gesture is open, a straight append or another curve
\* start at an admissible point is refused with CurveInProgress and leaves
\* the waypoints and the open gesture as they were.
C8_CurveInProgressRejected ==
    [][\A x \in ClickX, y \in ClickY :
          (/\ dragging_curve
           /\ is_valid_point(selected_side, central_line_x, x)
           /\ (add_straight_line(x, y) \/ start_curve_point(x, y)))
          => (outcome' = "CurveInProgress"
              /\ UNCHANGED <<path_points, dragging_curve>>)]_vars

\* The half-plane rule as the claim states it
Admissible(side, c, m, x) ==
    /\ side = "left" => x <= c - m
    /\ side = "right" => x >= c + m

\* C9: a clicked point (start, straight or curve start) is accepted iff
\* x <= c - m under the left constraint and iff x >= c + m under the right
\* one, always with no constraint; a refused point shows "Invalid Point" and
\* leaves waypoints, commands, cursor and gesture as they were.  With
\* c = 150, m = 10, left: 145 is refused and 140 accepted.
C9_HalfPlane ==
    /\ \A side \in Sides, x \in 0..FIELD_SIZE_PX :
           is_valid_point(side, central_line_x, x)
               <=> Admissible(side, central_line_x, CENTRAL_LINE_OFFSET, x)
    /\ ~is_valid_point("left", 150, 145) /\ is_valid_point("left", 150, 140)
    /\ [][\A x \in ClickX, y \in ClickY :
            (add_straight_line(x, y) \/ start_curve_point(x, y))
            => IF Admissible(selected_side, central_line_x, CENTRAL_LINE_OFFSET, x)
               THEN /\ outcome' = "ok"
                    /\ path_points' = Append(path_points, <<x, y>>)
               ELSE /\ outcome' = "Invalid Point"
                    /\ UNCHANGED session]_vars

\* C9 witness: a click was just refused on the left side with waypoints
\* already on the path.
C9_Witness ==
    /\ outcome = "Invalid Point"
    /\ selected_side = "left"
    /\ Len(path_points) >= 2

\* C10: a command button or Remove Command pressed while the cursor is -1
\* shows "No Waypoint Selected" and changes no command, nor the clasp flag,
\* nor the counter.
C10_NoSelectionRejected ==
    [][(selected_waypoint_index = -1
        /\ ((\E b \in Buttons : assign_command(b)) \/ remove_command))
         => (outcome' = "No Waypoint Selected" /\ UNCHANGED session)]_vars

\* C10 witness: the press was refused with waypoints on the path.
C10_Witness ==
    /\ outcome = "No Waypoint Selected"
    /\ selected_waypoint_index = -1
    /\ Len(path_points) >= 2

\* C11 as claimed: a straight append (right click) at an admissible point on
\* an empty path fails with Empty and leaves the path empty.
C11_EmptyPathRefused ==
    [][\A x \in ClickX, y \in ClickY :
          (/\ path_points = <<>>
           /\ is_valid_point(selected_side, central_line_x, x)
           /\ add_straight_line(x, y))
          => (outcome' = "Empty" /\ path_points' = <<>>)]_vars

\* C11 amended: a straight append at an admissible point on an empty path
\* does not fail; it creates the start waypoint at the clicked point, with
\* command None and no segment, and changes nothing else of the session.
C11_EmptyPathStarts ==
    [][\A x \in ClickX, y \in ClickY :
          (/\ path_points = <<>>
           /\ is_valid_point(selected_side, central_line_x, x)
           /\ add_straight_line(x, y))
          => /\ outcome' = "ok"
             /\ path_points' = <<<<x, y>>>>
             /\ created_by' = <<"start">>
             /\ waypoint_commands' = [q \in {<<x, y>>} |-> "None"]
             /\ UNCHANGED <<dragging_curve, selected_waypoint_index,
                            pending_clasp, scoops_to_release, selected_side>>]_vars

\* C11 witness: the path holds the start waypoint alone, created under the
\* left constraint, and nothing else of the session has moved.
C11_Witness ==
    /\ outcome = "ok"
    /\ selected_side = "left"
    /\ path_points = <<<<170, 100>>>>
    /\ created_by = <<"start">>
    /\ waypoint_commands[<<170, 100>>] = "None"
    /\ ~dragging_curve /\ selected_waypoint_index = -1

SameInstruction(c, t) ==
    /\ \/ c.command = "CMD_MOVE_WITH_HEADING" /\ t.command = "MOVE"
       \/ \E b \in Buttons : c.command = CTag(b) /\ t.command = TxtTag(b)
    /\ Fixed2(c.x) = t.x /\ Fixed2(c.y) = t.y
    /\ c.heading = t.heading
    /\ c.speed = t.speed

\* C13: an export that runs to its end leaves both files complete, with the
\* same number of entries and, position by position, the same instruction
\* in the C array and in the transcript.
C13_SameInstructionSequence ==
    [][(export_to_files /\ outcome' = "ok")
         => /\ c_file'.status = "complete" /\ txt_file'.status = "complete"
            /\ Len(c_file'.instrs) = Len(txt_file'.instrs)
            /\ \A k \in 1..Len(c_file'.instrs) :
                   SameInstruction(c_file'.instrs[k], txt_file'.instrs[k])]_vars

\* C13 witness: a three-waypoint path with Pick Up on the first waypoint and
\* Place on the last was exported: both files begin with the pick-up, end
\* with the place and hold moves to points between the pixels.
C13_Witness ==
    /\ c_file.status = "complete" /\ txt_file.status = "complete"
    /\ Len(path_points) = 3
    /\ c_file.instrs[1].command = "CMD_PICK_UP"
    /\ txt_file.instrs[1].command = "PICK UP"
    /\ c_file.instrs[Len(c_file.instrs)].command = "CMD_PLACE"
    /\ txt_file.instrs[Len(txt_file.instrs)].command = "PLACE"
    /\ \E k \in 1..Len(c_file.instrs) :
           /\ c_file.instrs[k].command = "CMD_MOVE_WITH_HEADING"
           /\ c_file.instrs[k].x[1] % c_file.instrs[k].x[2] # 0

\* What C14 says of the list pts returned for the straight segment (p1, p2),
\* all but its last clause: n = max(1, floor(distance / d)) points (d*n is
\* the largest multiple of d within the distance, or n = 1 below 2d), the
\* i-th at p1 + (i / n)(p2 - p1), the last one at p2.
StraightPoints(p1, p2, pts) ==
    LET n == Len(pts)
        d == distance_threshold
        sq == squared_distance(p1, p2)
    IN  /\ n >= 1
        /\ n = 1 => sq < (2 * d) * (2 * d)
        /\ n > 1 => (d * n) * (d * n) <= sq /\ sq < (d * (n + 1)) * (d * (n + 1))
        /\ \A i \in 1..n :
              /\ pts[i].x[1] * n = pts[i].x[2] * (p1[1] * n + i * (p2[1] - p1[1]))
              /\ pts[i].y[1] * n = pts[i].y[2] * (p1[2] * n + i * (p2[2] - p1[2]))
        /\ pts[n].x[1] = p2[1] * pts[n].x[2]
        /\ pts[n].y[1] = p2[2] * pts[n].y[2]

\* The point pt of a returned list lies on the pixel p
AtPixel(pt, p) == pt.x[1] = p[1] * pt.x[2] /\ pt.y[1] = p[2] * pt.y[2]

\* C14 as claimed: the straight rule returns n = max(1, floor(distance/d))
\* points, the i-th at parameter i/n, the last at p2, and none of them at p1.
C14_NeverEmitsStart ==
    [][densify(no_control)
         => /\ StraightPoints(path_points[1], path_points[2], densified'.pts)
            /\ \A i \in 1..Len(densified'.pts) :
                   ~AtPixel(densified'.pts[i], path_points[1])]_vars

\* C14 amended: the straight rule returns n = max(1, floor(distance/d))
\* points, the i-th at parameter i/n, the last at p2; none of them is at p1
\* unless p2 = p1, where the one point returned is p2 = p1.  For
\* (0,0)-(100,0) and d = 3 it returns 33 points.
C14_StraightDensify ==
    /\ Len(generate_intermediate_points(<<0, 0>>, <<100, 0>>)) = 33
    /\ [][densify(no_control)
           => /\ StraightPoints(path_points[1], path_points[2], densified'.pts)
              /\ IF path_points[1] = path_points[2]
                 THEN /\ Len(densified'.pts) = 1
                      /\ AtPixel(densified'.pts[1], path_points[1])
                 ELSE \A i \in 1..Len(densified'.pts) :
                         ~AtPixel(densified'.pts[i], path_points[1])]_vars

\* C14 witness: the 33 points of (0,0)-(100,0) have been returned, the
\* first at x = 100/33 and the last at (100, 0).
C14_Witness ==
    /\ path_points = <<<<0, 0>>, <<100, 0>>>>
    /\ densified.control = no_control
    /\ Len(densified.pts) = 33
    /\ densified.pts[1].x = <<100, 33>>
    /\ AtPixel(densified.pts[33], <<100, 0>>)

\* C15: the clasp flag and the scoop counter change only in a step that
\* assigns Clasp, Scoop or Release to the selected waypoint and succeeds;
\* Remove Command, the other buttons, clicks, drags, releases, cursor keys,
\* the side menu and the export leave both as they were.
C15_OnlySuccessfulAssign ==
    [][(pending_clasp' # pending_clasp \/ scoops_to_release' # scoops_to_release)
         => /\ selected
            /\ outcome' = "ok"
            /\ \E b \in {"Clasp", "Scoop", "Release"} : assign_command(b)]_vars

\* C15 witness: a Clasp and a Scoop were assigned and removed again; no
\* waypoint carries a command, the clasp is still open and one scoop is
\* still counted.
C15_Witness ==
    /\ outcome = "ok" /\ selected
    /\ Len(path_points) >= 2
    /\ \A q \in DOMAIN waypoint_commands : waypoint_commands[q] = "None"
    /\ pending_clasp /\ scoops_to_release = 1

\* C16: with a waypoint selected, Remove Command succeeds and leaves that
\* waypoint, still selected, with command None; pressed again in the state
\* it has left, it changes nothing at all, so twice is the same as once.
C16_RemoveIdempotent ==
    [][(remove_command /\ selected)
         => /\ outcome' = "ok"
            /\ selected_waypoint_index' = selected_waypoint_index
            /\ path_points' = path_points
            /\ waypoint_commands'[selected_wp] = "None"
            /\ (outcome = "ok" /\ waypoint_commands[selected_wp] = "None")
                  => UNCHANGED vars]_vars

\* C16 witness: the selected waypoint has lost its command while another
\* one keeps its Clasp and the clasp stays open.
C16_Witness ==
    /\ outcome = "ok"
    /\ selected_waypoint_index = 1
    /\ waypoint_commands[selected_wp] = "None"
    /\ \E q \in DOMAIN waypoint_commands : waypoint_commands[q] = "Clasp"
    /\ pending_clasp /\ scoops_to_release = 0

\* C17: with n >= 1 waypoints and waypoint i selected, Right selects i + 1,
\* or the first waypoint from the last one, and Left selects i - 1, or the
\* last waypoint from the first one; on an empty path neither key changes
\* the cursor.  Nothing but the cursor changes.
C17_CursorCycles ==
    [][\A d \in {1, -1} :
          cycle_waypoint(d)
          => /\ UNCHANGED <<path_points, waypoint_commands, dragging_curve,
                            pending_clasp, scoops_to_release>>
             /\ path_points = <<>> => UNCHANGED selected_waypoint_index
             /\ (path_points # <<>> /\ selected)
                  => LET n == Len(path_points)
                         i == selected_waypoint_index
                     IN  selected_waypoint_index' =
                            IF d = 1 THEN (IF i = n - 1 THEN 0 ELSE i + 1)
                            ELSE (IF i = 0 THEN n - 1 ELSE i - 1)]_vars

\* C17 witness: the cursor is on the last of three waypoints, where Left
\* from the first one and Right from the second one both lead.
C17_Witness ==
    /\ outcome = "ok"
    /\ Len(path_points) = 3
    /\ selected_waypoint_index = 2
    /\ ~pending_clasp /\ \A q \in DOMAIN waypoint_commands : waypoint_commands[q] = "None"

\* C18: the command of the waypoint at index i changes only in a step of a
\* command button or of Remove Command taken while index i is the selected
\* one; assigning or removing at another index, and appending a waypoint
\* (at the same coordinates or not), leave it as it was.
C18_CommandsByIndex ==
    [][\A i \in 1..Len(path_points) :
          (waypoint_commands'[path_points'[i]] # waypoint_commands[path_points[i]])
          => /\ selected_waypoint_index = i - 1
             /\ (\E b \in Buttons : assign_command(b)) \/ remove_command]_vars

\* C19: a curve click at an admissible point p on a non-empty path appends
\* exactly the waypoint p and opens the gesture; a drag changes no waypoint
\* and no command; the release, wherever the mouse is, leaves every
\* waypoint where it was (the new one at p) and the commands as they were,
\* and closes the gesture.  No step removes or moves an earlier waypoint.
C19_CurveGesture ==
    [][/\ \A x \in ClickX, y \in ClickY :
            (/\ start_curve_point(x, y)
             /\ path_points # <<>>
             /\ is_valid_point(selected_side, central_line_x, x))
            => (path_points' = Append(path_points, <<x, y>>) /\ dragging_curve')
       /\ \A c \in Controls :
            adjust_curve_point(c)
            => UNCHANGED <<path_points, waypoint_commands, dragging_curve>>
       /\ \A c \in Controls :
            (finalize_curve_point(c) /\ dragging_curve)
            => /\ outcome' = "ok"
               /\ path_points' = path_points
               /\ waypoint_commands' = waypoint_commands
               /\ ~dragging_curve'
       /\ Len(path_points') >= Len(path_points)
       /\ \A i \in 1..Len(path_points) : path_points'[i] = path_points[i]]_vars

\* C19 witness: the last of three waypoints was appended by a curve click
\* at (190, 100) and its gesture is closed.
C19_Witness ==
    /\ outcome = "ok"
    /\ Len(path_points) = 3
    /\ created_by[3] = "curve"
    /\ path_points[3] = <<190, 100>>
    /\ ~dragging_curve

\* The rule C20 states, from sample i on: a sample is kept when it is at
\* least distance_threshold away from the last point kept before it.
RECURSIVE ClaimedRetained(_, _, _)
ClaimedRetained(bezier_points, i, last) ==
    IF i > Len(bezier_points) THEN <<>>
    ELSE IF distance_at_least(last, bezier_points[i], distance_threshold)
    THEN <<bezier_points[i]>>
         \o ClaimedRetained(bezier_points, i + 1, bezier_points[i])
    ELSE ClaimedRetained(bezier_points, i + 1, last)

\* C20: the curve rule returns the samples of the curve that are at least d
\* away from the previously retained point, the segment start at first, so
\* that samples closer than d to each other still yield a point once their
\* distance from the last retained point reaches d.
C20_RetainedFromPrevious ==
    [][\A c \in DensifyControls :
          densify(c)
          => [k \in 1..Len(densified'.pts) |->
                 <<densified'.pts[k].x[1], densified'.pts[k].y[1]>>]
             = ClaimedRetained(
                   calculate_quadratic_bezier_points(path_points[1],
                                                     path_points[2], c),
                   2, <<10000 * path_points[1][1], 10000 * path_points[1][2]>>)]_vars

\* An actuator entry tagged `tag` stands before position k of the sequence
PrecededBy(instrs, k, tag) == \E j \in 1..(k - 1) : instrs[j].command = tag

\* C21: in every compiled instruction sequence, each Scoop entry has a Clasp
\* entry somewhere before it and each Release entry has a Scoop entry
\* somewhere before it.
C21_ActuatorOrder ==
    c_file.status = "complete"
        => \A k \in 1..Len(c_file.instrs) :
               /\ c_file.instrs[k].command = "CMD_SCOOP"
                      => PrecededBy(c_file.instrs, k, "CMD_CLASP")
               /\ c_file.instrs[k].command = "CMD_RELEASE"
                      => PrecededBy(c_file.instrs, k, "CMD_SCOOP")

\* C22: in every session state the scoop counter is not negative, and it is
\* above 0 only while the clasp is open.
C22_ScoopsOnlyWhileClasped ==
    /\ scoops_to_release >= 0
    /\ scoops_to_release > 0 => pending_clasp

\* C22 witness: a scoop is pending with the clasp open again after a Release
\* closed it: a Release is stored on one waypoint and the Scoop just
\* assigned on the selected one.
C22_Witness ==
    /\ outcome = "ok" /\ selected
    /\ scoops_to_release = 1 /\ pending_clasp
    /\ waypoint_commands[selected_wp] = "Scoop"
    /\ \E p \in DOMAIN waypoint_commands : waypoint_commands[p] = "Release"

\* While a gesture is open the waypoint a curve click appended and the one
\* before it are on the path, so the path has at least 2 waypoints.
GestureHasEnds(path, made_by, dragging) ==
    dragging => /\ Len(path) >= 2
                /\ \E i \in 2..Len(path) : made_by[i] = "curve"

\* C23: in every session state an open curve gesture implies a path of at
\* least 2 waypoints, the gesture's start and provisional end among them;
\* hence the drag and release handlers always find path_points[-2] and
\* path_points[-1]; a left click on an empty path creates the starting
\* point only and opens no gesture.
C23_OpenGestureHasTwoWaypoints ==
    [][/\ GestureHasEnds(path_points, created_by, dragging_curve)
       /\ GestureHasEnds(path_points', created_by', dragging_curve')
       /\ \A c \in Controls :
            (adjust_curve_point(c) \/ finalize_curve_point(c))
            => outcome' # "IndexError"
       /\ \A x \in ClickX, y \in ClickY :
            (/\ start_curve_point(x, y)
             /\ path_points = <<>>
             /\ is_valid_point(selected_side, central_line_x, x))
            => /\ path_points' = <<<<x, y>>>>
               /\ created_by' = <<"start">>
               /\ ~dragging_curve']_vars

\* C23 witness: a gesture is open on a path of exactly two waypoints, the
\* starting point and the different point the curve click appended.
C23_Witness ==
    /\ dragging_curve /\ outcome = "ok"
    /\ created_by = <<"start", "curve">>
    /\ path_points[1] # path_points[2]

\* The cursor is -1 or the index of a waypoint of the path, and every
\* waypoint of the path has an entry in the command store.
CursorAddresses(path, cmds, index) ==
    /\ index = -1 \/ index \in 0..(Len(path) - 1)
    /\ \A i \in 1..Len(path) : path[i] \in DOMAIN cmds /\ cmds[path[i]] \in COMMANDS

\* C24: in every session state the cursor is -1 or a valid index
\* 0 <= i < number of waypoints and every waypoint has a stored command;
\* once a waypoint is selected no step returns the cursor to -1.
C24_CursorValid ==
    [][/\ CursorAddresses(path_points, waypoint_commands, selected_waypoint_index)
       /\ CursorAddresses(path_points', waypoint_commands', selected_waypoint_index')
       /\ selected => selected_waypoint_index' # -1]_vars

\* C24 witness: the cursor is on the middle one of three waypoints, which
\* Left reaches from -1, and a Place has been stored through it.
C24_Witness ==
    /\ outcome = "ok"
    /\ Len(path_points) = 3
    /\ selected_waypoint_index = 1
    /\ waypoint_commands[selected_wp] = "Place"

====
